---- MODULE Spec2Model ----
(***************************************************************************)
(* The attack simulators of terraform/attack-simulations: eleven           *)
(* *_simulator.py scripts that share one harness (config loader, entity    *)
(* factory, per-attack-type coroutine, timed polling loop, report writer)  *)
(* and the standalone simulate_sandwich_attack.py.                         *)
(*                                                                         *)
(* One behaviour is one run of one simulator.  Numbers are abstracted as   *)
(* follows: an amount is drawn from the two end points of the range the    *)
(* code draws it from; a profit is recorded by its sign (-1, 0, 1); the    *)
(* wall clock counts ticks, one tick being what one cadence sleep takes.   *)
(*                                                                         *)
(* The scripts of attack-simulations/scripts are separate programs, each   *)
(* with its own specification over its own variables: RunnerSpec           *)
(* (security_test_runner.py), SuiteSpec (performance_test.py and           *)
(* throughput_test.py) and ResponseSpec (response_time_test.py).  In a     *)
(* behaviour of one program the variables of the others stay idle.         *)
(* ConfigSpec follows a simulator's constructor and the start of its       *)
(* attack loop over every configuration file; PercentileSpec applies       *)
(* _calculate_percentile of response_time_test.py to every bounded list.   *)
(***************************************************************************)
EXTENDS Integers, Sequences, FiniteSets, TLC

VARIABLES sim, config, pc, clock, end_time, attackers, targets, attacks,
          flash_loans, attacks_total, sel, attack_result, raised,
          errors_logged, report_writes, attack_calls, slept, appended,
          attack_success_rate

\* scripts/security_test_runner.py: the runner, its argument and its results
VARIABLES rpc, tests, test_types, tests_to_run, results, executions, report

\* scripts/performance_test.py and scripts/throughput_test.py: the suite, its
\* arguments, the running test and its tasks, self.metrics and the results
VARIABLES suite, spc, duration, concurrent, test_no, suite_clock,
          suite_end_time, tasks, monitoring_task, metrics, suite_results,
          suite_raised

\* scripts/response_time_test.py: the suite's arguments, the running test,
\* self.response_times, the tasks' local lists, the results and the report
VARIABLES rt_pc, test_count, concurrent_tests, rt_test_no, response_times,
          rt_tasks, rt_results, rt_raised, rt_report

\* a simulator's constructor and the start of its attack loop: the simulator,
\* the file at config_path, self.config, the errors logged by _load_config,
\* the exception the constructor raised, and duration_hours
VARIABLES csim, cpc, config_file, self_config, load_errors, ctor_raised,
          duration_hours

\* calls of ResponseTimeTest._calculate_percentile on one list: the list,
\* the two percentiles asked for, the two values returned, and the metrics
\* dictionary _calculate_response_time_metrics builds from the same list
VARIABLES pct_pc, pct_data, pct_p, pct_q, pct_results, pct_metrics

sim_vars == <<sim, config, pc, clock, end_time, attackers, targets, attacks,
              flash_loans, attacks_total, sel, attack_result, raised,
              errors_logged, report_writes, attack_calls, slept, appended,
              attack_success_rate>>

runner_vars == <<rpc, tests, test_types, tests_to_run, results, executions,
                 report>>

suite_vars == <<suite, spc, duration, concurrent, test_no, suite_clock,
                suite_end_time, tasks, monitoring_task, metrics,
                suite_results, suite_raised>>

response_vars == <<rt_pc, test_count, concurrent_tests, rt_test_no,
                   response_times, rt_tasks, rt_results, rt_raised, rt_report>>

config_vars == <<csim, cpc, config_file, self_config, load_errors,
                 ctor_raised, duration_hours>>

percentile_vars == <<pct_pc, pct_data, pct_p, pct_q, pct_results,
                     pct_metrics>>

script_vars == <<runner_vars, suite_vars, response_vars, config_vars,
                 percentile_vars>>

vars == <<sim_vars, script_vars>>

(* ------------------------------ bounds -------------------------------- *)

\* Ticks the attack loop runs for (duration_hours * 3600 seconds, rescaled).
RunTicks == 2

\* Largest number of attackers a run creates.
MaxAttackers == 1

\* Largest number of attack types sampled for one attacker.
MaxSample == 2

Min(a, b) == IF a <= b THEN a ELSE b

(* -------------------------- the simulators ---------------------------- *)

Simulators ==
    {"mev", "flash_loan", "oracle", "reentrancy", "governance", "staking",
     "cross_chain", "ddos", "economic", "social_engineering", "supply_chain"}

Sandwich == "sandwich"

\* The attack-type enum of each simulator, by value.
AttackType ==
    {"sandwich_attack", "front_running", "back_running", "arbitrage_attack"}

FlashLoanAttackType ==
    {"price_manipulation", "arbitrage_exploitation", "liquidity_drain",
     "governance_attack"}

OracleAttackType ==
    {"price_flash_loan", "oracle_delay_exploit", "cross_chain_manipulation",
     "governance_oracle_attack"}

ReentrancyAttackType ==
    {"single_function_reentrancy", "cross_function_reentrancy",
     "read_only_reentrancy", "cross_contract_reentrancy",
     "delegate_call_reentrancy", "external_call_reentrancy"}

GovernanceAttackType ==
    {"voting_manipulation", "proposal_attack", "governance_token_attack",
     "delegation_attack", "quorum_attack", "timelock_attack",
     "multisig_attack", "governance_takeover"}

StakingAttackType ==
    {"slashing_attack", "validator_attack", "delegation_attack",
     "reward_manipulation", "validator_takeover", "staking_pool_attack",
     "unbonding_attack", "staking_economics_attack"}

CrossChainAttackType ==
    {"bridge_validation_attack", "cross_chain_replay_attack",
     "bridge_liquidity_attack", "validator_attack", "message_relay_attack",
     "bridge_economics_attack", "cross_chain_mev_attack",
     "bridge_governance_attack"}

DDoSAttackType ==
    {"network_flooding", "resource_exhaustion", "service_disruption",
     "infrastructure_attack", "bandwidth_attack", "application_layer_attack",
     "protocol_attack", "distributed_attack"}

EconomicAttackType ==
    {"tokenomics_manipulation", "governance_attack", "staking_attack",
     "reward_manipulation", "liquidity_manipulation", "price_manipulation",
     "supply_attack", "voting_power_attack"}

SocialEngineeringAttackType ==
    {"phishing_attack", "impersonation_attack", "social_manipulation",
     "information_disclosure", "pretexting_attack", "baiting_attack",
     "quid_pro_quo_attack", "tailgating_attack"}

SupplyChainAttackType ==
    {"dependency_attack", "third_party_attack", "library_attack",
     "infrastructure_attack", "package_attack", "update_attack",
     "compromised_build_attack", "malicious_update_attack"}

EnumOf(s) ==
    CASE s = "mev" -> AttackType
      [] s = "flash_loan" -> FlashLoanAttackType
      [] s = "oracle" -> OracleAttackType
      [] s = "reentrancy" -> ReentrancyAttackType
      [] s = "governance" -> GovernanceAttackType
      [] s = "staking" -> StakingAttackType
      [] s = "cross_chain" -> CrossChainAttackType
      [] s = "ddos" -> DDoSAttackType
      [] s = "economic" -> EconomicAttackType
      [] s = "social_engineering" -> SocialEngineeringAttackType
      [] s = "supply_chain" -> SupplyChainAttackType
      [] OTHER -> {}

(* ------------------------ the attack functions ------------------------ *)

(* What one attack coroutine does, field by field:                         *)
(*   early    when it returns before attacking: "never", "target" (the     *)
(*            target fails the test the function starts with: the record   *)
(*            has success False and a reason, no profit, no                *)
(*            detection_time), "peers" (no other vulnerable contract,      *)
(*            same record) or "error" (no oracle prices: {"error": ...})   *)
(*   amt      the range the attack amount is drawn from, << >> if none     *)
(*   capped   the draw goes through min(draw, attacker maximum)            *)
(*   pkey     the key the profit is stored under, "none" if none           *)
(*   profits  the signs the profit can take when it is not forced to 0     *)
(*   gated    profit is 0 unless the function's condition holds            *)
(*   adhoc    success also needs the function's condition                  *)
H(early, amt, capped, pkey, profits, gated, adhoc) ==
    [early |-> early, amt |-> amt, capped |-> capped, pkey |-> pkey,
     profits |-> profits, gated |-> gated, adhoc |-> adhoc]

\* profit = random.uniform(..) if random.random() < bot.success_rate else 0
MEVHandlers ==
    [t \in {"sandwich_attack", "front_running", "arbitrage_attack"} |->
        H("never", << >>, FALSE, "profit", {1}, TRUE, FALSE)]

FlashLoanHandlers ==
    ("price_manipulation" :>
        H("never", << >>, TRUE, "profit", {1}, FALSE, TRUE)) @@
    ("arbitrage_exploitation" :>
        H("never", << >>, TRUE, "net_profit", {1}, FALSE, FALSE)) @@
    ("liquidity_drain" :>
        H("never", << >>, TRUE, "net_profit", {0, 1}, FALSE, TRUE)) @@
    ("governance_attack" :>
        H("never", << >>, TRUE, "net_profit", {1}, FALSE, FALSE))

OracleHandlers ==
    ("price_flash_loan" :>
        H("error", <<100000, 1000000>>, TRUE, "profit", {1}, FALSE, TRUE)) @@
    ("oracle_delay_exploit" :>
        H("error", <<10000, 100000>>, FALSE, "profit", {0, 1}, FALSE, TRUE)) @@
    ("cross_chain_manipulation" :>
        H("never", <<50000, 500000>>, FALSE, "profit", {0, 1}, FALSE, TRUE)) @@
    ("governance_oracle_attack" :>
        H("never", <<100000, 1000000>>, FALSE, "profit", {0, 1}, FALSE, TRUE))

\* profit = total_drained - attack_amount: zero up to floating-point rounding
ReentrancyHandlers ==
    ("single_function_reentrancy" :>
        H("target", <<1000, 10000>>, TRUE, "profit", {-1, 0, 1}, FALSE, TRUE)) @@
    ("cross_function_reentrancy" :>
        H("target", <<5000, 50000>>, TRUE, "profit", {-1, 0, 1}, FALSE, TRUE)) @@
    ("read_only_reentrancy" :>
        H("never", <<1000, 20000>>, TRUE, "profit", {1}, FALSE, FALSE)) @@
    ("cross_contract_reentrancy" :>
        H("peers", <<2000, 20000>>, TRUE, "profit", {-1, 0, 1}, FALSE, TRUE))

GovernanceHandlers ==
    ("voting_manipulation" :>
        H("never", <<10000, 100000>>, TRUE, "profit", {1}, TRUE, TRUE)) @@
    ("proposal_attack" :>
        H("target", << >>, FALSE, "profit", {1}, FALSE, TRUE)) @@
    ("governance_token_attack" :>
        H("never", <<50000, 500000>>, TRUE, "profit", {1}, FALSE, TRUE)) @@
    ("governance_takeover" :>
        H("never", <<100000, 1000000>>, TRUE, "profit", {1}, TRUE, TRUE))

StakingHandlers ==
    ("slashing_attack" :>
        H("never", <<10000, 100000>>, TRUE, "profit", {1}, FALSE, TRUE)) @@
    ("validator_attack" :>
        H("never", <<20000, 200000>>, TRUE, "profit", {1}, TRUE, TRUE)) @@
    ("delegation_attack" :>
        H("never", <<50000, 500000>>, TRUE, "profit", {1}, FALSE, TRUE)) @@
    ("reward_manipulation" :>
        H("never", <<30000, 300000>>, TRUE, "profit", {1}, FALSE, TRUE)) @@
    ("validator_takeover" :>
        H("never", <<100000, 1000000>>, TRUE, "profit", {1}, TRUE, TRUE))

CrossChainHandlers ==
    ("bridge_validation_attack" :>
        H("target", <<10000, 100000>>, TRUE, "profit", {1}, TRUE, TRUE)) @@
    ("cross_chain_replay_attack" :>
        H("never", <<50000, 500000>>, TRUE, "profit", {1}, TRUE, TRUE)) @@
    ("bridge_liquidity_attack" :>
        H("never", <<100000, 1000000>>, TRUE, "profit", {1}, TRUE, TRUE)) @@
    ("validator_attack" :>
        H("never", <<20000, 200000>>, TRUE, "profit", {1}, TRUE, TRUE)) @@
    ("message_relay_attack" :>
        H("never", <<30000, 300000>>, TRUE, "profit", {1}, FALSE, TRUE))

\* intensities in tenths: min(random.uniform(0.5, 2.0), max_attack_intensity)
DDoSHandlers ==
    ("network_flooding" :>
        H("never", <<5, 20>>, TRUE, "none", {}, FALSE, TRUE)) @@
    ("resource_exhaustion" :>
        H("never", <<3, 15>>, TRUE, "none", {}, FALSE, TRUE)) @@
    ("service_disruption" :>
        H("never", <<4, 18>>, TRUE, "none", {}, FALSE, TRUE)) @@
    ("infrastructure_attack" :>
        H("never", <<6, 20>>, TRUE, "none", {}, FALSE, TRUE)) @@
    ("bandwidth_attack" :>
        H("never", <<8, 25>>, TRUE, "none", {}, FALSE, TRUE))

EconomicHandlers ==
    ("tokenomics_manipulation" :>
        H("never", <<10000, 100000>>, TRUE, "profit", {1}, FALSE, FALSE)) @@
    ("governance_attack" :>
        H("never", << >>, FALSE, "profit", {1}, FALSE, TRUE)) @@
    ("staking_attack" :>
        H("never", <<10000, 50000>>, TRUE, "profit", {1}, FALSE, FALSE)) @@
    ("liquidity_manipulation" :>
        H("never", <<50000, 200000>>, TRUE, "profit", {1}, FALSE, FALSE))

SocialEngineeringHandlers ==
    [t \in {"phishing_attack", "impersonation_attack", "social_manipulation",
            "information_disclosure", "pretexting_attack"} |->
        H("never", << >>, FALSE, "none", {}, FALSE, TRUE)]

SupplyChainHandlers ==
    [t \in {"dependency_attack", "third_party_attack", "library_attack",
            "infrastructure_attack", "package_attack"} |->
        H("never", << >>, FALSE, "none", {}, FALSE, TRUE)]

\* The if/elif chain of _run_attack_simulation: the types it dispatches.
HandlersOf(s) ==
    CASE s = "mev" -> MEVHandlers
      [] s = "flash_loan" -> FlashLoanHandlers
      [] s = "oracle" -> OracleHandlers
      [] s = "reentrancy" -> ReentrancyHandlers
      [] s = "governance" -> GovernanceHandlers
      [] s = "staking" -> StakingHandlers
      [] s = "cross_chain" -> CrossChainHandlers
      [] s = "ddos" -> DDoSHandlers
      [] s = "economic" -> EconomicHandlers
      [] s = "social_engineering" -> SocialEngineeringHandlers
      [] s = "supply_chain" -> SupplyChainHandlers

(* --------------------------- entity factory --------------------------- *)

\* The range the attacker's maximum is drawn from (max_attack_amount,
\* max_manipulation_amount, max_attack_intensity in tenths); << >> when the
\* attacker has none.  max_loan_amount is a member of config.loan_amounts.
MaxRange(s) ==
    CASE s = "oracle" -> <<100000, 10000000>>
      [] s = "reentrancy" -> <<10000, 100000>>
      [] s = "governance" -> <<100000, 1000000>>
      [] s = "staking" -> <<50000, 500000>>
      [] s = "cross_chain" -> <<100000, 1000000>>
      [] s = "ddos" -> <<5, 20>>
      [] s = "economic" -> <<50000, 500000>>
      [] OTHER -> << >>

\* random.sample(list(<enum>), random.randint(1, k)): the largest k.
SampleMax(s) == IF s \in {"mev", "flash_loan", "oracle"} THEN 3 ELSE 4

Maxima(s, cfg) ==
    IF s = "flash_loan" THEN cfg.loan_amounts
    ELSE IF MaxRange(s) = << >> THEN {0}
    ELSE {MaxRange(s)[1], MaxRange(s)[2]}

Samples(s) ==
    {T \in SUBSET EnumOf(s) :
        Cardinality(T) >= 1 /\ Cardinality(T) <= Min(MaxSample, SampleMax(s))}

\* _create_attackers / _create_bots / _create_manipulators
CreateAttackers(s, cfg) ==
    IF s = Sandwich THEN {<< >>}
    ELSE UNION {[1..n -> [attack_types : Samples(s), max : Maxima(s, cfg)]] :
                    n \in 1..MaxAttackers}

\* A target is known by the one attribute the attack functions test before
\* they attack: contract.is_vulnerable, bridge.is_vulnerable,
\* proposal.is_malicious, or (oracle) the pair having price feeds.
Exposed == [id |-> 0, exposed |-> TRUE]
Shielded == [id |-> 1, exposed |-> FALSE]

\* _create_pools, _create_contracts, _create_bridges, _create_proposals,
\* _create_tokens, _initialize_oracle_prices, ...
CreateTargets(s, cfg) ==
    CASE s \in {"reentrancy", "cross_chain", "governance"} ->
            {{Exposed}, {Shielded}, {Exposed, Shielded}}
      [] s = "oracle" ->
            IF ~cfg.target_list THEN {{}}
            ELSE IF cfg.oracle_sources THEN {{Exposed}} ELSE {{Shielded}}
      [] s = "economic" ->
            IF cfg.target_list THEN {{Exposed}} ELSE {{}}
      [] OTHER -> {{Exposed}}

\* The configurations a run is started with.  target_list: the config list
\* the targets are made from (target_pairs, target_tokens) is not empty;
\* oracle_sources: config.oracle_sources is not empty.
Configs(s) ==
    CASE s = "flash_loan" ->
            {[loan_amounts |-> L, target_list |-> TRUE, oracle_sources |-> TRUE] :
                L \in {{1000000}, {1000000, 5000000}}}
      [] s = "oracle" ->
            {[loan_amounts |-> {}, target_list |-> tl, oracle_sources |-> os] :
                tl \in BOOLEAN, os \in BOOLEAN}
      [] s = "economic" ->
            {[loan_amounts |-> {}, target_list |-> tl, oracle_sources |-> TRUE] :
                tl \in BOOLEAN}
      [] OTHER ->
            {[loan_amounts |-> {}, target_list |-> TRUE, oracle_sources |-> TRUE]}

(* ----------------------- one attack function call --------------------- *)

NoResult == [none |-> TRUE]
NotRaised == [exc |-> "none", at |-> "none", caught |-> FALSE]

\* Faulty variant of Success: the function's condition (for the oracle
\* simulator, not is_detected) is left out of the conjunction.
SuccessIgnoringDetection(h, profit, cond) ==
    IF h.pkey = "none" THEN cond
    ELSE profit > 0

\* Faulty variant of Success: a profit of zero counts as a success.
SuccessNonNegative(h, profit, cond) ==
    IF h.pkey = "none" THEN cond
    ELSE profit >= 0 /\ (h.adhoc => cond)

\* success = profit > 0 and <ad hoc condition>; simulators that compute no
\* profit set success from the condition alone.
Success(h, profit, cond) ==
    IF h.pkey = "none" THEN cond
    ELSE profit > 0 /\ (h.adhoc => cond)

\* min(random.uniform(lo, hi), attacker.max_...), or the bare draw
AttackAmount(h, draw, a) == IF h.capped THEN Min(draw, a.max) ELSE draw

Draws(s, h, cfg) ==
    IF s = "flash_loan" THEN cfg.loan_amounts
    ELSE IF h.amt = << >> THEN {}
    ELSE {h.amt[1], h.amt[2]}

Profits(h, cond) ==
    IF h.pkey = "none" THEN {0}
    ELSE IF h.gated /\ ~cond THEN {0}
    ELSE h.profits

ReturnsEarly(h, tg, tgs) ==
    CASE h.early \in {"target", "error"} -> ~tg.exposed
      [] h.early = "peers" -> ~(\E c \in tgs \ {tg} : c.exposed)
      [] OTHER -> FALSE

EarlyRecord(h, t, i) ==
    IF h.early = "error" THEN [error |-> "No oracle prices available"]
    ELSE [attack_type |-> t, attacker_id |-> i, success |-> FALSE,
          reason |-> "not vulnerable"]

\* The attack_result dictionary of a call that runs to its end.  The keys
\* bot_id / manipulator_id / attacker_id are all written attacker_id, and
\* the amount's key (loan_amount, attack_amount, flood_intensity, ...) is
\* written amount; the attacker's maximum is kept beside it.
FullRecord(s, h, t, i, a, amounts, profit, cond) ==
    [attack_type |-> t, attacker_id |-> i, detection_time |-> 0,
     success |-> Success(h, profit, cond)]
    @@ (IF amounts = {} THEN << >>
        ELSE ("amount" :> (CHOOSE x \in amounts : TRUE)))
    @@ (IF h.pkey = "none" THEN << >> ELSE (h.pkey :> profit))
    @@ (IF s = "oracle" THEN ("detected" :> ~cond) ELSE << >>)

\* Every dictionary the coroutine for type t can return.
AttackResults(s, t, i, a, tg, tgs, cfg) ==
    LET h == HandlersOf(s)[t] IN
    IF ReturnsEarly(h, tg, tgs) THEN {EarlyRecord(h, t, i)}
    ELSE LET ds == Draws(s, h, cfg) IN
         {FullRecord(s, h, t, i, a,
                     IF d = -1 THEN {} ELSE {AttackAmount(h, d, a)}, p, c) :
            <<d, c, p>> \in
                {x \in (IF ds = {} THEN {-1} ELSE ds) \X BOOLEAN \X {-1, 0, 1} :
                    x[3] \in Profits(h, x[2])}}

\* Whether the call updates attacks_total: every path but the early returns.
CountsAttack(r) == "detection_time" \in DOMAIN r

(* simulate_sandwich_attack: the names bound when the result dictionary is *)
(* built, and the names the dictionary reads.                              *)
SandwichBound ==
    {"self", "victim_amount", "pool_reserves", "time", "random",
     "start_time", "reserve_a", "reserve_b", "victim_output", "front_amount",
     "front_output", "new_reserve_a", "new_reserve_b",
     "victim_actual_output", "back_amount", "back_output", "profit",
     "detection_time", "success"}

SandwichReads ==
    {"time", "victim_amount", "front_amount", "back_amount", "victim_output",
     "victim_actual_output", "profit", "success", "detection_time",
     "victim_expected_output", "random"}

SandwichRaises == ~(SandwichReads \subseteq SandwichBound)

(* ----------------------- the loop and the report ---------------------- *)

NoSel == [type |-> "none"]

Raise(exc, at, caught) == [exc |-> exc, at |-> at, caught |-> caught]

\* Faulty variant of AppendAttack: the record is put in front of the list.
InsertAttackFirst(as, r) == <<r>> \o as

\* self.attacks.append(attack_result)
AppendAttack(as, r) == Append(as, r)

\* Faulty variant of TrackFlashLoan: the loan is never put on the list.
FlashLoanNotTracked(s, loans, i, r) == loans

\* self.flash_loans.append(flash_loan), in the flash-loan attack functions
\* only.
TrackFlashLoan(s, loans, i, r) ==
    IF s = "flash_loan"
    THEN Append(loans, [borrower |-> i, amount |-> r.amount])
    ELSE loans

\* sum(1 for a in self.attacks if a["success"]) / len(self.attacks), as the
\* pair <<successes, attacks>>
SuccessRate(as) ==
    <<Cardinality({k \in 1..Len(as) : as[k].success}), Len(as)>>

\* Keys the log line after the append reads with [...] (not with .get).
LogReads(s) ==
    {"success", "attack_type", "detection_time"}
        \cup (IF s \in {"mev", "oracle"} THEN {"profit"} ELSE {})

\* Keys _generate_report reads with [...] from every record, and from the
\* successful ones.
ReportReads(s) == {"success", "detection_time", "attack_type", "attacker_id"}

ReportReadsOfSuccess(s) ==
    IF s \in {"flash_loan", "ddos", "social_engineering", "supply_chain"}
    THEN {} ELSE {"profit"}

\* How _generate_report (_generate_summary) ends and whether json.dump ran.
ReportOutcome(s, as) ==
    LET n == Len(as)
        missing == \E k \in 1..n :
                      \/ ~(ReportReads(s) \subseteq DOMAIN as[k])
                      \/ /\ as[k].success
                         /\ ~(ReportReadsOfSuccess(s) \subseteq DOMAIN as[k])
    IN IF s = Sandwich
       THEN IF n = 0 THEN [exc |-> "ZeroDivisionError", written |-> FALSE]
            ELSE [exc |-> "none", written |-> TRUE]
       ELSE IF missing THEN [exc |-> "KeyError", written |-> FALSE]
       ELSE IF n = 0 THEN [exc |-> "ZeroDivisionError", written |-> TRUE]
       ELSE [exc |-> "none", written |-> TRUE]

\* test_types = None
NoTypes == [none |-> TRUE, list |-> {}]

\* the results dictionary run_all_tests starts from
EmptyResults ==
    [total_tests |-> 0, passed_tests |-> 0, failed_tests |-> 0,
     skipped_tests |-> 0, test_results |-> << >>, summary |-> << >>]

\* No SecurityTestRunner exists in a run of a simulator.
RunnerIdle ==
    /\ rpc = "idle"
    /\ tests = << >>
    /\ test_types = NoTypes
    /\ tests_to_run = << >>
    /\ results = EmptyResults
    /\ executions = << >>
    /\ report = "none"

\* self.metrics / self.throughput_metrics after __init__
EmptyMetrics == [response_times |-> << >>, cpu_usage |-> << >>]

NoMonitor == [active |-> FALSE, wake |-> 0]

NoSummary == [present |-> FALSE]

\* No performance or throughput suite exists in a run of a simulator.
SuiteIdle ==
    /\ suite = "none"
    /\ spc = "idle"
    /\ duration = 0
    /\ concurrent = 0
    /\ test_no = 0
    /\ suite_clock = 0
    /\ suite_end_time = 0
    /\ tasks = << >>
    /\ monitoring_task = NoMonitor
    /\ metrics = EmptyMetrics
    /\ suite_results = [tests |-> << >>, summary |-> NoSummary]
    /\ suite_raised = "none"

DetectionTypes ==
    <<"mev_detection", "flash_loan_detection", "oracle_detection",
      "system_response", "alert_generation">>

\* self.response_times after __init__
EmptyResponseTimes ==
    [type \in {DetectionTypes[k] : k \in 1..Len(DetectionTypes)} |-> << >>]

\* No response-time suite exists in a run of a simulator.
ResponseIdle ==
    /\ rt_pc = "idle"
    /\ test_count = 0
    /\ concurrent_tests = 0
    /\ rt_test_no = 0
    /\ response_times = EmptyResponseTimes
    /\ rt_tasks = << >>
    /\ rt_results = [tests |-> << >>, summary |-> NoSummary]
    /\ rt_raised = "none"
    /\ rt_report = "none"

\* self.config before _load_config has returned
NoConfig == [kind |-> "unset"]

\* The constructor is not followed step by step in a run of the attack loop.
ConfigIdle ==
    /\ csim = "none"
    /\ cpc = "idle"
    /\ config_file = [kind |-> "none"]
    /\ self_config = NoConfig
    /\ load_errors = 0
    /\ ctor_raised = "none"
    /\ duration_hours = 0

NoPercentiles == [none |-> TRUE]

\* _calculate_percentile is not called on its own elsewhere.
PercentileIdle ==
    /\ pct_pc = "idle"
    /\ pct_data = << >>
    /\ pct_p = 0
    /\ pct_q = 0
    /\ pct_results = NoPercentiles
    /\ pct_metrics = NoPercentiles

ScriptsIdle ==
    RunnerIdle /\ SuiteIdle /\ ResponseIdle /\ ConfigIdle /\ PercentileIdle

Init ==
    /\ ScriptsIdle
    /\ sim \in Simulators \cup {Sandwich}
    /\ config \in Configs(sim)
    /\ pc = "constructed"
    /\ clock = 0
    /\ end_time = 0
    /\ attackers = << >>
    /\ targets = {}
    /\ attacks = << >>
    /\ flash_loans = << >>
    /\ attacks_total = 0
    /\ sel = NoSel
    /\ attack_result = NoResult
    /\ raised = NotRaised
    /\ errors_logged = 0
    /\ report_writes = 0
    /\ attack_calls = 0
    /\ slept = 0
    /\ appended = 0
    /\ attack_success_rate = << >>

\* run_simulation, "Initialize environment"
CreateEntities ==
    /\ pc = "constructed"
    /\ sim # Sandwich
    /\ attackers' \in CreateAttackers(sim, config)
    /\ targets' \in CreateTargets(sim, config)
    /\ pc' = "created"
    /\ UNCHANGED attack_success_rate
    /\ UNCHANGED script_vars
    /\ UNCHANGED <<sim, config, clock, end_time, attacks, flash_loans,
                   attacks_total, sel, attack_result, raised, errors_logged,
                   report_writes, attack_calls, slept, appended>>

\* end_time = time.time() + duration; the sandwich script builds its
\* pool_configs here.
StartLoop ==
    /\ \/ pc = "created"
       \/ pc = "constructed" /\ sim = Sandwich
    /\ end_time' = clock + RunTicks
    /\ targets' = IF sim = Sandwich THEN {Exposed} ELSE targets
    /\ pc' = "loop"
    /\ UNCHANGED attack_success_rate
    /\ UNCHANGED script_vars
    /\ UNCHANGED <<sim, config, clock, attackers, attacks, flash_loans,
                   attacks_total, sel, attack_result, raised, errors_logged,
                   report_writes, attack_calls, slept, appended>>

\* while time.time() < end_time: choose the attacker, the target and the
\* attack type.  random.choice on an empty list raises IndexError, outside
\* the try block.
Select ==
    /\ pc = "loop"
    /\ clock < end_time
    /\ slept' = 0
    /\ appended' = 0
    /\ attack_result' = NoResult
    /\ IF targets = {}
       THEN /\ raised' = Raise("IndexError", "select", FALSE)
            /\ pc' = "crashed"
            /\ sel' = NoSel
       ELSE /\ \E tg \in targets :
                IF sim = Sandwich
                THEN sel' = [type |-> "sandwich_attack", attacker |-> 0,
                             target |-> tg]
                ELSE \E i \in DOMAIN attackers :
                       \E t \in attackers[i].attack_types :
                          sel' = [type |-> t, attacker |-> i, target |-> tg]
            /\ pc' = "dispatch"
            /\ UNCHANGED raised
    /\ UNCHANGED attack_success_rate
    /\ UNCHANGED script_vars
    /\ UNCHANGED <<sim, config, clock, end_time, attackers, targets, attacks,
                   flash_loans, attacks_total, errors_logged, report_writes,
                   attack_calls>>

\* The if/elif chain has no branch for the type: else: continue.
Continue ==
    /\ pc = "dispatch"
    /\ sim # Sandwich
    /\ sel.type \notin DOMAIN HandlersOf(sim)
    /\ clock' \in {clock, clock + 1}
    /\ pc' = "loop"
    /\ UNCHANGED attack_success_rate
    /\ UNCHANGED script_vars
    /\ UNCHANGED <<sim, config, end_time, attackers, targets, attacks,
                   flash_loans, attacks_total, sel, attack_result, raised,
                   errors_logged, report_writes, attack_calls, slept,
                   appended>>

\* attack_result = await self._simulate_...(attacker, target)
CallAttack ==
    /\ pc = "dispatch"
    /\ sim # Sandwich
    /\ sel.type \in DOMAIN HandlersOf(sim)
    /\ \E r \in AttackResults(sim, sel.type, sel.attacker,
                              attackers[sel.attacker], sel.target, targets,
                              config) :
          /\ attack_result' = r
          /\ flash_loans' = TrackFlashLoan(sim, flash_loans, sel.attacker, r)
          /\ attacks_total' =
                IF CountsAttack(r) THEN attacks_total + 1 ELSE attacks_total
    /\ attack_calls' = attack_calls + 1
    /\ pc' = "record"
    /\ UNCHANGED attack_success_rate
    /\ UNCHANGED script_vars
    /\ UNCHANGED <<sim, config, clock, end_time, attackers, targets, attacks,
                   sel, raised, errors_logged, report_writes, slept, appended>>

\* await self.simulate_sandwich_attack(victim_amount, pool["reserves"]):
\* the function appends its own record; the loop has no try block.
SandwichAttack ==
    /\ pc = "dispatch"
    /\ sim = Sandwich
    /\ attack_calls' = attack_calls + 1
    /\ IF SandwichRaises
       THEN /\ raised' = Raise("NameError", "attack", FALSE)
            /\ pc' = "crashed"
            /\ UNCHANGED <<attacks, attack_result, appended>>
       ELSE /\ \E p \in {-1, 1} :
                /\ attack_result' =
                      [attack_type |-> "sandwich_attack", profit |-> p,
                       success |-> p > 0, detection_time |-> 0,
                       net_profit |-> p]
                /\ attacks' = AppendAttack(attacks, attack_result')
            /\ appended' = 1
            /\ pc' = "sleep"
            /\ UNCHANGED raised
    /\ UNCHANGED attack_success_rate
    /\ UNCHANGED script_vars
    /\ UNCHANGED <<sim, config, clock, end_time, attackers, targets,
                   flash_loans, attacks_total, sel, errors_logged,
                   report_writes, slept>>

\* self.attacks.append(attack_result), then the log line and the success
\* rate gauge of the selected type; a KeyError of the log line is caught by
\* the iteration's except clause, which skips the gauge.
RecordAttack ==
    /\ pc = "record"
    /\ IF sim = "oracle" /\ "error" \in DOMAIN attack_result
       THEN UNCHANGED <<attacks, appended, raised, errors_logged,
                        attack_success_rate>>
       ELSE /\ attacks' = AppendAttack(attacks, attack_result)
            /\ appended' = 1
            /\ IF LogReads(sim) \subseteq DOMAIN attack_result
               THEN /\ attack_success_rate' =
                          (sel.type :> SuccessRate(attacks'))
                              @@ attack_success_rate
                    /\ UNCHANGED <<raised, errors_logged>>
               ELSE /\ raised' = Raise("KeyError", "log", TRUE)
                    /\ errors_logged' = errors_logged + 1
                    /\ UNCHANGED attack_success_rate
    /\ pc' = "sleep"
    /\ UNCHANGED script_vars
    /\ UNCHANGED <<sim, config, clock, end_time, attackers, targets,
                   flash_loans, attacks_total, sel, attack_result,
                   report_writes, attack_calls, slept>>

\* await asyncio.sleep(...): one tick
Sleep ==
    /\ pc = "sleep"
    /\ clock' = clock + 1
    /\ slept' = slept + 1
    /\ pc' = "loop"
    /\ UNCHANGED attack_success_rate
    /\ UNCHANGED script_vars
    /\ UNCHANGED <<sim, config, end_time, attackers, targets, attacks,
                   flash_loans, attacks_total, sel, attack_result, raised,
                   errors_logged, report_writes, attack_calls, appended>>

\* time.time() < end_time is false
ExitLoop ==
    /\ pc = "loop"
    /\ clock >= end_time
    /\ pc' = "report"
    /\ UNCHANGED attack_success_rate
    /\ UNCHANGED script_vars
    /\ UNCHANGED <<sim, config, clock, end_time, attackers, targets, attacks,
                   flash_loans, attacks_total, sel, attack_result, raised,
                   errors_logged, report_writes, attack_calls, slept,
                   appended>>

\* self._generate_report()
GenerateReport ==
    /\ pc = "report"
    /\ LET out == ReportOutcome(sim, attacks) IN
          /\ report_writes' =
                IF out.written THEN report_writes + 1 ELSE report_writes
          /\ IF out.exc = "none"
             THEN pc' = "done" /\ UNCHANGED raised
             ELSE pc' = "crashed" /\ raised' = Raise(out.exc, "report", FALSE)
    /\ UNCHANGED attack_success_rate
    /\ UNCHANGED script_vars
    /\ UNCHANGED <<sim, config, clock, end_time, attackers, targets, attacks,
                   flash_loans, attacks_total, sel, attack_result,
                   errors_logged, attack_calls, slept, appended>>

Next ==
    \/ CreateEntities
    \/ StartLoop
    \/ Select
    \/ Continue
    \/ CallAttack
    \/ SandwichAttack
    \/ RecordAttack
    \/ Sleep
    \/ ExitLoop
    \/ GenerateReport

Spec == Init /\ [][Next]_vars

(* ------------------------------ properties ---------------------------- *)

CarriesProfit(r) == "profit" \in DOMAIN r \/ "net_profit" \in DOMAIN r

\* a.get("net_profit", a.get("profit", 0))
RecordedProfit(r) ==
    IF "net_profit" \in DOMAIN r THEN r.net_profit ELSE r.profit

\* C1: in every simulator, the standalone sandwich script included, an
\* exception raised while an attack iteration executes (dispatch, attack
\* function, append, logging) is caught and the run goes on: it never ends
\* the run.
C1_IterationErrorsCaught ==
    raised.at \in {"attack", "log"} => (raised.caught /\ pc # "crashed")

\* C2: report generation never raises, whatever self.attacks holds, and a
\* run whose loop has ended and whose report step is over has written its
\* JSON report.
C2_ReportCompletes ==
    /\ raised.at # "report"
    /\ pc = "done" => report_writes = 1

\* C3: when the loop is back at its head after an iteration, that iteration
\* has slept exactly once.
C3_SleepsOncePerIteration ==
    (pc = "loop" /\ sel # NoSel) => slept = 1

\* C4: the loop is left only through the wall-clock check: control is past
\* the loop only when the clock has reached end_time.
C4_LoopExitsByClockOnly ==
    pc \in {"report", "done", "crashed"} => clock >= end_time

\* C5: the phases of a run come in order: no attack function is called
\* before the entity lists exist, the report is never serialized while the
\* loop runs nor a second time, and a run that has ended has serialized it
\* exactly once.
C5_PhasesInOrder ==
    /\ pc \in {"constructed", "created"} => attack_calls = 0
    /\ (attack_calls > 0 /\ sim # Sandwich) => Len(attackers) >= 1
    /\ report_writes <= 1
    /\ report_writes = 1 => (pc \in {"done", "crashed"} /\ clock >= end_time)
    /\ pc \in {"done", "crashed"} => report_writes = 1

C7_AttacksOnlyGrow ==
    /\ [](sim \in Simulators =>
            \A k \in 1..Len(attacks) : attacks[k].attack_type \in EnumOf(sim))
    /\ [][\/ attacks' = attacks
          \/ /\ appended = 0
             /\ appended' = 1
             /\ Len(attacks') = Len(attacks) + 1
             /\ SubSeq(attacks', 1, Len(attacks)) = attacks]_vars

\* Two iterations have each appended a record, the second unlike the first.
C7_Witness ==
    /\ sim \in Simulators
    /\ Len(attacks) = 2
    /\ attacks[1] # attacks[2]
    /\ appended = 1

\* C8: every record of self.attacks that carries a profit or net_profit and
\* is marked successful has a strictly positive profit.
C8_SuccessImpliesProfit ==
    \A k \in 1..Len(attacks) :
        (CarriesProfit(attacks[k]) /\ attacks[k].success)
            => RecordedProfit(attacks[k]) > 0

\* self.attacks holds a successful record with a positive profit and a
\* failed one whose profit is not positive.
C8_Witness ==
    /\ \E k \in 1..Len(attacks) :
          /\ CarriesProfit(attacks[k])
          /\ attacks[k].success
          /\ RecordedProfit(attacks[k]) > 0
    /\ \E k \in 1..Len(attacks) :
          /\ CarriesProfit(attacks[k])
          /\ ~attacks[k].success
          /\ RecordedProfit(attacks[k]) <= 0

\* C9: when an iteration that selected an attack type is over, exactly one
\* record was appended in it and that record is of the selected type.
C9_SelectedTypeRecorded ==
    (pc = "loop" /\ sel # NoSel) =>
        /\ appended = 1
        /\ attacks[Len(attacks)].attack_type = sel.type

\* C10: the amount (or intensity) of every recorded attack is at most the
\* maximum of the attacker that made it, and every flash-loan amount is a
\* member of config.loan_amounts.
C10_AmountWithinMaximum ==
    \A k \in 1..Len(attacks) :
        "amount" \in DOMAIN attacks[k] =>
            /\ attacks[k].amount <= attackers[attacks[k].attacker_id].max
            /\ sim = "flash_loan" => attacks[k].amount \in config.loan_amounts

\* C11: every call of simulate_sandwich_attack returns without raising and
\* has appended its record to self.attacks: the list has one record per call.
C11_SandwichCallAppends ==
    sim = Sandwich => (raised.exc = "none" /\ Len(attacks) = attack_calls)

\* successes of type t / attacks of type t, as the pair <<successes, attacks>>
TypeRate(as, t) ==
    <<Cardinality({k \in 1..Len(as) : as[k].attack_type = t /\ as[k].success}),
      Cardinality({k \in 1..Len(as) : as[k].attack_type = t})>>

SameRate(p, q) == p[1] * q[2] = q[1] * p[2]

\* C17: when an attack of type T has been recorded and the gauge set, the
\* gauge labelled T holds the success rate of the recorded attacks of type T.
C17_GaugeIsPerType ==
    (/\ pc = "sleep"
     /\ sim \in Simulators
     /\ appended = 1
     /\ LogReads(sim) \subseteq DOMAIN attack_result)
        => /\ sel.type \in DOMAIN attack_success_rate
           /\ SameRate(attack_success_rate[sel.type],
                       TypeRate(attacks, sel.type))

OracleRecordKeys == {"success", "detected", "profit", "detection_time"}

\* C23: in the oracle simulator no stored record has both success and
\* detected true, no stored record carries an error key (a result with an
\* error key leaves self.attacks as it was), and every stored record has
\* the keys success, detected, profit and detection_time.
C23_OracleRecordsAreConsistent ==
    sim = "oracle" =>
        /\ \A k \in 1..Len(attacks) :
              /\ "error" \notin DOMAIN attacks[k]
              /\ OracleRecordKeys \subseteq DOMAIN attacks[k]
              /\ ~(attacks[k].success /\ attacks[k].detected)
        /\ (pc = "sleep" /\ "error" \in DOMAIN attack_result)
              => appended = 0

\* A detected attack with a positive profit is stored as a failure, and the
\* iteration after it got an error result that was not appended.
C23_Witness ==
    /\ sim = "oracle"
    /\ pc = "sleep"
    /\ "error" \in DOMAIN attack_result
    /\ Len(attacks) = 1
    /\ attacks[1].detected
    /\ attacks[1].profit > 0
    /\ ~attacks[1].success

(* ------------------- scripts/security_test_runner.py ------------------ *)
(* One behaviour of RunnerSpec is one run of main: the runner is built,   *)
(* --test-types is parsed, run_all_tests runs the selected tests one      *)
(* after the other and generate_report renders the results.  A test's     *)
(* command is abstracted to what each subprocess.run of it does.          *)

\* Tests _initialize_tests creates for each test type (three in the source).
TestsPerType == 1

\* Largest value of SecurityTest.retries (the dataclass default is 3).
MaxRetries == 2

\* Largest number of names given to --test-types.
MaxTypeNames == 2

TestTypeOrder ==
    <<"mev_protection", "flash_loan_protection", "oracle_security",
      "system_health", "monitoring", "performance">>

TestType == {TestTypeOrder[i] : i \in 1..Len(TestTypeOrder)}

\* a --test-types name that is no TestType value
UnknownName == "unknown_type"

\* what one subprocess.run of a test's command does
Outcomes == {"exit0", "nonzero", "timeout", "exception"}

SecurityTest(id, type, retries) ==
    [id |-> id, test_type |-> type, retries |-> retries,
     status |-> "pending", error_message |-> "None"]

InitializeTests(retries) ==
    [i \in 1..(Len(TestTypeOrder) * TestsPerType) |->
        SecurityTest(i, TestTypeOrder[((i - 1) \div TestsPerType) + 1],
                     retries)]

\* main: args.test_types is None or a non-empty list of names
TypeArgs ==
    {[none |-> TRUE, list |-> {}]} \cup
    {[none |-> FALSE, list |-> S] :
        S \in {T \in SUBSET (TestType \cup {UnknownName}) :
                  Cardinality(T) \in 1..MaxTypeNames}}

\* main: test_types stays None, or is the list of the known names
ParseTestTypes(args) ==
    IF args.none THEN NoTypes
    ELSE [none |-> FALSE, list |-> args.list \cap TestType]

\* "if test_types:" is false for None and for the empty list
Truthy(tt) == ~tt.none /\ tt.list # {}

\* indices of self.tests, in the order of self.tests
FilterTests(ts, tt) ==
    IF Truthy(tt)
    THEN SelectSeq([i \in 1..Len(ts) |-> i],
                   LAMBDA i : ts[i].test_type \in tt.list)
    ELSE [i \in 1..Len(ts) |-> i]

\* the dictionary of an attempt whose subprocess.run returned
CompletedResult(test, success, attempt) ==
    ("test_id" :> test.id) @@ ("test_name" :> test.id) @@
    ("test_type" :> test.test_type) @@
    ("status" :> IF success THEN "passed" ELSE "failed") @@
    ("execution_time" :> "elapsed") @@ ("attempt" :> attempt + 1) @@
    ("stdout" :> "stdout") @@ ("stderr" :> "stderr") @@
    ("return_code" :> IF success THEN 0 ELSE 1) @@
    ("timestamp" :> "now")

\* the dictionary of the timeout, exception and fall-through returns
ErrorResult(test, error) ==
    ("test_id" :> test.id) @@ ("test_name" :> test.id) @@
    ("status" :> "failed") @@ ("error" :> error) @@ ("timestamp" :> "now")

\* run_test from loop index attempt on: the returned dictionary, the test's
\* status and error_message at the return, and the subprocess.run calls made
RECURSIVE Attempts(_, _, _)
Attempts(test, outcomes, attempt) ==
    IF attempt >= test.retries
    THEN [result |-> ErrorResult(test, "All retry attempts failed"),
          status |-> "running", error_message |-> test.error_message,
          runs |-> attempt]
    ELSE LET o == outcomes[attempt + 1] IN
         IF o \in {"exit0", "nonzero"}
         THEN [result |-> CompletedResult(test, o = "exit0", attempt),
               status |-> IF o = "exit0" THEN "passed" ELSE "failed",
               error_message |-> IF o = "exit0" THEN test.error_message
                                 ELSE "stderr",
               runs |-> attempt + 1]
         ELSE IF attempt = test.retries - 1
              THEN LET error == IF o = "timeout" THEN "Test timeout"
                                ELSE "str(e)" IN
                   [result |-> ErrorResult(test, error),
                    status |-> "failed", error_message |-> error,
                    runs |-> attempt + 1]
              ELSE Attempts(test, outcomes, attempt + 1)

RunTestOutcome(test, outcomes) == Attempts(test, outcomes, 0)

\* run_all_tests, the counters after one more result
Tally(res, test_result) ==
    [res EXCEPT
        !.test_results = Append(@, test_result),
        !.passed_tests = IF test_result["status"] = "passed" THEN @ + 1 ELSE @,
        !.failed_tests = IF test_result["status"] = "failed" THEN @ + 1 ELSE @,
        !.skipped_tests = IF test_result["status"] \notin {"passed", "failed"}
                          THEN @ + 1 ELSE @]

\* run_all_tests, "Generate summary by test type" (success_rate is
\* passed / total, kept as the pair it is computed from)
Summary(ts, run) ==
    [type \in TestType |->
        LET type_tests == {k \in 1..Len(run) : ts[run[k]].test_type = type}
        IN [total |-> Cardinality(type_tests),
            passed |-> Cardinality({k \in type_tests :
                                       ts[run[k]].status = "passed"}),
            failed |-> Cardinality({k \in type_tests :
                                       ts[run[k]].status = "failed"})]]

\* generate_report: the string, or the exception an f-string raises
RunnerReport(res) ==
    IF res.total_tests = 0 THEN "ZeroDivisionError"
    ELSE IF \E k \in 1..Len(res.test_results) :
              {"test_name", "test_id", "status", "test_type"}
                 \ DOMAIN res.test_results[k] # {}
         THEN "KeyError"
         ELSE "report"

\* No simulator runs in a run of the test runner.
SimIdle ==
    /\ sim = "none"
    /\ config = << >>
    /\ pc = "idle"
    /\ clock = 0
    /\ end_time = 0
    /\ attackers = << >>
    /\ targets = {}
    /\ attacks = << >>
    /\ flash_loans = << >>
    /\ attacks_total = 0
    /\ sel = NoSel
    /\ attack_result = NoResult
    /\ raised = NotRaised
    /\ errors_logged = 0
    /\ report_writes = 0
    /\ attack_calls = 0
    /\ slept = 0
    /\ appended = 0
    /\ attack_success_rate = << >>

\* after SecurityTestRunner.__init__
RunnerInit ==
    /\ SimIdle
    /\ SuiteIdle
    /\ ResponseIdle
    /\ ConfigIdle
    /\ PercentileIdle
    /\ rpc = "main"
    /\ \E retries \in 0..MaxRetries : tests = InitializeTests(retries)
    /\ test_types = NoTypes
    /\ tests_to_run = << >>
    /\ results = EmptyResults
    /\ executions = << >>
    /\ report = "none"

\* main, "Parse test types if specified"
ParseArgs ==
    /\ rpc = "main"
    /\ \E args \in TypeArgs : test_types' = ParseTestTypes(args)
    /\ rpc' = "run_all"
    /\ UNCHANGED <<tests, tests_to_run, results, executions, report>>
    /\ UNCHANGED <<sim_vars, suite_vars, response_vars, config_vars,
                   percentile_vars>>

\* run_all_tests up to the loop over tests_to_run
RunAllTests ==
    /\ rpc = "run_all"
    /\ tests_to_run' = FilterTests(tests, test_types)
    /\ results' = [EmptyResults EXCEPT !.total_tests = Len(tests_to_run')]
    /\ rpc' = "run_test"
    /\ UNCHANGED <<tests, test_types, executions, report>>
    /\ UNCHANGED <<sim_vars, suite_vars, response_vars, config_vars,
                   percentile_vars>>

\* one iteration of "for test in tests_to_run": run_test and the counting
RunTest ==
    /\ rpc = "run_test"
    /\ Len(results.test_results) < Len(tests_to_run)
    /\ LET i == tests_to_run[Len(results.test_results) + 1]
           test == [tests[i] EXCEPT !.status = "running"]
       IN \E outcomes \in [1..test.retries -> Outcomes] :
             LET out == RunTestOutcome(test, outcomes) IN
             /\ tests' = [tests EXCEPT ![i] =
                            [test EXCEPT !.status = out.status,
                                         !.error_message = out.error_message]]
             /\ results' = Tally(results, out.result)
             /\ executions' = Append(executions, out.runs)
    /\ UNCHANGED <<rpc, test_types, tests_to_run, report>>
    /\ UNCHANGED <<sim_vars, suite_vars, response_vars, config_vars,
                   percentile_vars>>

\* run_all_tests after the loop: the summary, _save_results, the return
Summarize ==
    /\ rpc = "run_test"
    /\ Len(results.test_results) = Len(tests_to_run)
    /\ results' = [results EXCEPT !.summary = Summary(tests, tests_to_run)]
    /\ rpc' = "report"
    /\ UNCHANGED <<tests, test_types, tests_to_run, executions, report>>
    /\ UNCHANGED <<sim_vars, suite_vars, response_vars, config_vars,
                   percentile_vars>>

\* main, "Generate report"
RunnerGenerateReport ==
    /\ rpc = "report"
    /\ report' = RunnerReport(results)
    /\ rpc' = IF report' = "report" THEN "done" ELSE "crashed"
    /\ UNCHANGED <<tests, test_types, tests_to_run, results, executions>>
    /\ UNCHANGED <<sim_vars, suite_vars, response_vars, config_vars,
                   percentile_vars>>

RunnerNext ==
    \/ ParseArgs
    \/ RunAllTests
    \/ RunTest
    \/ Summarize
    \/ RunnerGenerateReport

RunnerSpec == RunnerInit /\ [][RunnerNext]_vars

(* ------------------------ properties of the runner -------------------- *)

\* C13: generate_report returns a report string for every results dictionary
\* run_all_tests returns, also when a test timed out, raised or ran out of
\* attempts: the report call never ends in an exception.
C13_ReportIsReturned ==
    rpc \in {"done", "crashed"} => report = "report"

\* C14: run_test runs the command at most test.retries times, and a test is
\* reported failed only when all test.retries runs of its command were made.
C14_FailedOnlyAfterAllRetries ==
    \A k \in 1..Len(results.test_results) :
        LET test == tests[tests_to_run[k]] IN
        /\ executions[k] <= test.retries
        /\ results.test_results[k]["status"] = "failed"
              => executions[k] = test.retries

RECURSIVE SumOver(_, _, _)
SumOver(summary, field, n) ==
    IF n = 0 THEN 0
    ELSE summary[TestTypeOrder[n]][field] + SumOver(summary, field, n - 1)

\* C15: once run_all_tests has returned, total_tests is the number of results
\* and the sum of the three counters, the per-type totals sum to total_tests,
\* the per-type passed and failed counts (from the tests' status) sum to
\* passed_tests and failed_tests (from the result dictionaries), and every
\* test that ran has the status its result says.
C15_CountsAgree ==
    rpc \in {"report", "done", "crashed"} =>
        LET n == Len(TestTypeOrder) IN
        /\ results.total_tests = Len(results.test_results)
        /\ results.total_tests = results.passed_tests + results.failed_tests
                                    + results.skipped_tests
        /\ SumOver(results.summary, "total", n) = results.total_tests
        /\ SumOver(results.summary, "passed", n) = results.passed_tests
        /\ SumOver(results.summary, "failed", n) = results.failed_tests
        /\ \A k \in 1..Len(results.test_results) :
              tests[tests_to_run[k]].status
                 = results.test_results[k]["status"]

\* C16: when run_all_tests was given a list of test types, every test it has
\* run has its type in that list, and the tests ran in the order of
\* self.tests.
C16_ExecutedTestsAreSelected ==
    ~test_types.none =>
        \A k \in 1..Len(results.test_results) :
            /\ tests[results.test_results[k]["test_id"]].test_type
                  \in test_types.list
            /\ \A j \in 1..(k - 1) :
                  results.test_results[j]["test_id"]
                     < results.test_results[k]["test_id"]

(* ------- scripts/performance_test.py, scripts/throughput_test.py ------ *)
(* One behaviour of SuiteSpec is one run of the performance suite         *)
(* (run_performance_tests, then generate_report) or of the per-type tests *)
(* of the throughput suite, called in the order run_throughput_tests      *)
(* calls them.  The attack coroutines of a test are tasks that interleave *)
(* at their awaits.  The clock counts ticks; an await takes one tick or   *)
(* more; a response time is counted in hundredths of a second.            *)

\* Largest duration of a test, in ticks.
MaxDuration == 1

\* Largest number of concurrent simulations.
MaxConcurrent == 2

\* Largest number of ticks one asyncio.sleep takes.
MaxAwaitTicks == 2

PerformancePlan ==
    <<"mev_simulation", "flash_loan_simulation", "oracle_simulation",
      "concurrent_simulation">>

ThroughputPlan ==
    <<"mev_throughput", "flash_loan_throughput", "oracle_throughput">>

Plan(s) == IF s = "performance" THEN PerformancePlan ELSE ThroughputPlan

\* random.uniform(lo, hi) of the simulated response time, by its end points
ResponseTimes(kind) ==
    CASE kind = "mev_simulation" -> {1, 50}
      [] kind = "flash_loan_simulation" -> {10, 100}
      [] kind = "oracle_simulation" -> {20, 200}
      [] kind = "concurrent_simulation" -> {1, 100}

\* psutil.cpu_percent()
CpuPercents == {50}

\* attack coroutines of a test: the test's own loop, or one task per
\* concurrent simulation
TaskCount(s, kind, n) ==
    IF s = "performance" /\ kind # "concurrent_simulation" THEN 1 ELSE n

NewTask == [pc |-> "check", attack_count |-> 0, wake |-> 0, started |-> 0]

\* Faulty variant of RecordSample: the append of one task is lost.
LoseSample(list, sample) == list

\* self.metrics["response_times"].append(response_time)
RecordSample(list, sample) == Append(list, sample)

RECURSIVE SumValues(_, _)
SumValues(list, n) ==
    IF n = 0 THEN 0 ELSE list[n].value + SumValues(list, n - 1)

\* statistics.mean(list) if list else 0, as the pair <<sum, count>>
MeanOrZero(list) ==
    IF Len(list) = 0 THEN <<0, 1>> ELSE <<SumValues(list, Len(list)), Len(list)>>

RECURSIVE SumCounts(_, _)
SumCounts(ts, n) ==
    IF n = 0 THEN 0 ELSE ts[n].attack_count + SumCounts(ts, n - 1)

\* the dictionary a test returns
TestEntry(s, kind, d, n, ts, m) ==
    LET common == ("test_type" :> kind) @@ ("duration" :> d) @@
                  ("avg_response_time" :> MeanOrZero(m.response_times))
        total == SumCounts(ts, Len(ts))
    IN
    IF s = "throughput"
    THEN common @@ ("concurrent" :> n) @@ ("total_attacks" :> total) @@
         ("attacks_per_second" :> <<total, d>>) @@
         ("system_load" :> MeanOrZero(m.cpu_usage))
    ELSE IF kind = "concurrent_simulation"
    THEN common @@ ("concurrent_simulations" :> n) @@
         ("total_attacks" :> total) @@ ("throughput" :> <<total, d>>) @@
         ("cpu_usage" :> MeanOrZero(m.cpu_usage))
    ELSE common @@ ("attack_count" :> total) @@ ("throughput" :> <<total, d>>)
         @@ ("cpu_usage" :> MeanOrZero(m.cpu_usage))

\* keys _calculate_summary and generate_report read from every test
SummaryReads == {"attack_count", "throughput", "avg_response_time", "cpu_usage"}

RECURSIVE SumAttackCounts(_, _)
SumAttackCounts(es, n) ==
    IF n = 0 THEN 0 ELSE es[n]["attack_count"] + SumAttackCounts(es, n - 1)

\* _calculate_summary: the summary, or the KeyError of a missing key
CalculateSummary(es) ==
    IF \E k \in 1..Len(es) : SummaryReads \ DOMAIN es[k] # {}
    THEN [present |-> FALSE, raised |-> "KeyError"]
    ELSE [present |-> TRUE, raised |-> "none",
          total_attacks |-> SumAttackCounts(es, Len(es)),
          avg_throughput |-> "mean", avg_response_time |-> "mean",
          performance_score |-> "score"]

\* after PerformanceTest() / ThroughputTest(), with the parsed arguments
SuiteInit ==
    /\ SimIdle
    /\ RunnerIdle
    /\ ResponseIdle
    /\ ConfigIdle
    /\ PercentileIdle
    /\ suite \in {"performance", "throughput"}
    /\ spc = "next_test"
    /\ duration \in 1..MaxDuration
    /\ concurrent \in 1..MaxConcurrent
    /\ test_no = 0
    /\ suite_clock = 0
    /\ suite_end_time = 0
    /\ tasks = << >>
    /\ monitoring_task = NoMonitor
    /\ metrics = EmptyMetrics
    /\ suite_results = [tests |-> << >>, summary |-> NoSummary]
    /\ suite_raised = "none"

\* a test up to its first await: end_time, the monitoring task, the tasks
StartTest ==
    /\ spc = "next_test"
    /\ test_no < Len(Plan(suite))
    /\ test_no' = test_no + 1
    /\ suite_end_time' = suite_clock + duration
    /\ monitoring_task' = [active |-> suite = "performance", wake |-> suite_clock]
    /\ tasks' = [i \in 1..TaskCount(suite, Plan(suite)[test_no'], concurrent)
                    |-> NewTask]
    /\ spc' = "running"
    /\ UNCHANGED <<suite, duration, concurrent, suite_clock, metrics,
                   suite_results, suite_raised>>
    /\ UNCHANGED <<sim_vars, runner_vars, response_vars, config_vars,
                   percentile_vars>>

\* "while time.time() < end_time" of an attack coroutine, up to its await
TaskCheck(i) ==
    /\ spc = "running"
    /\ tasks[i].pc = "check"
    /\ IF suite_clock < suite_end_time
       THEN \E d \in 1..MaxAwaitTicks :
               tasks' = [tasks EXCEPT ![i].pc = "attack",
                                      ![i].started = suite_clock,
                                      ![i].wake = suite_clock + d]
       ELSE tasks' = [tasks EXCEPT ![i].pc = "done"]
    /\ UNCHANGED <<suite, spc, duration, concurrent, test_no, suite_clock,
                   suite_end_time, monitoring_task, metrics, suite_results,
                   suite_raised>>
    /\ UNCHANGED <<sim_vars, runner_vars, response_vars, config_vars,
                   percentile_vars>>

\* an attack coroutine from the end of its attack to its next await: the
\* sample and the count, without an await between them
TaskRecord(i) ==
    /\ spc = "running"
    /\ tasks[i].pc = "attack"
    /\ suite_clock >= tasks[i].wake
    /\ IF suite = "performance"
       THEN /\ \E v \in ResponseTimes(Plan(suite)[test_no]) :
                  metrics' = [metrics EXCEPT !.response_times =
                      RecordSample(@, [value |-> v, test |-> test_no,
                                       task |-> i])]
            /\ tasks' = [tasks EXCEPT ![i].pc = "check",
                                      ![i].attack_count = @ + 1]
       ELSE /\ \E load \in CpuPercents, d \in 1..MaxAwaitTicks :
                  /\ metrics' = [metrics EXCEPT
                        !.response_times =
                            RecordSample(@, [value |-> suite_clock
                                                        - tasks[i].started,
                                             test |-> test_no, task |-> i]),
                        !.cpu_usage =
                            Append(@, [value |-> load, test |-> test_no])]
                  /\ tasks' = [tasks EXCEPT ![i].pc = "sleep",
                                            ![i].attack_count = @ + 1,
                                            ![i].wake = suite_clock + d]
    /\ UNCHANGED <<suite, spc, duration, concurrent, test_no, suite_clock,
                   suite_end_time, monitoring_task, suite_results,
                   suite_raised>>
    /\ UNCHANGED <<sim_vars, runner_vars, response_vars, config_vars,
                   percentile_vars>>

\* _simulate_*_attacks, the end of "Variable delay between attacks"
TaskWake(i) ==
    /\ spc = "running"
    /\ tasks[i].pc = "sleep"
    /\ suite_clock >= tasks[i].wake
    /\ tasks' = [tasks EXCEPT ![i].pc = "check"]
    /\ UNCHANGED <<suite, spc, duration, concurrent, test_no, suite_clock,
                   suite_end_time, monitoring_task, metrics, suite_results,
                   suite_raised>>
    /\ UNCHANGED <<sim_vars, runner_vars, response_vars, config_vars,
                   percentile_vars>>

\* one iteration of _monitor_system_metrics
Monitor ==
    /\ spc = "running"
    /\ monitoring_task.active
    /\ suite_clock >= monitoring_task.wake
    /\ suite_clock < suite_end_time
    /\ \E cpu \in CpuPercents :
          metrics' = [metrics EXCEPT !.cpu_usage =
                         Append(@, [value |-> cpu, test |-> test_no])]
    /\ monitoring_task' = [monitoring_task EXCEPT !.wake = suite_clock + 1]
    /\ UNCHANGED <<suite, spc, duration, concurrent, test_no, suite_clock,
                   suite_end_time, tasks, suite_results, suite_raised>>
    /\ UNCHANGED <<sim_vars, runner_vars, response_vars, config_vars,
                   percentile_vars>>

\* time passes while a coroutine sleeps
Tick ==
    /\ spc = "running"
    /\ \E i \in 1..Len(tasks) :
          tasks[i].pc \in {"attack", "sleep"} /\ tasks[i].wake > suite_clock
    /\ suite_clock' = suite_clock + 1
    /\ UNCHANGED <<suite, spc, duration, concurrent, test_no, suite_end_time,
                   tasks, monitoring_task, metrics, suite_results,
                   suite_raised>>
    /\ UNCHANGED <<sim_vars, runner_vars, response_vars, config_vars,
                   percentile_vars>>

\* a test after its loop or its gather: monitoring_task.cancel(), the
\* metrics, the returned dictionary, results["tests"].append
FinishTest ==
    /\ spc = "running"
    /\ \A i \in 1..Len(tasks) : tasks[i].pc = "done"
    /\ monitoring_task' = NoMonitor
    /\ suite_results' = [suite_results EXCEPT !.tests =
          Append(@, TestEntry(suite, Plan(suite)[test_no], duration,
                              concurrent, tasks, metrics))]
    /\ spc' = "next_test"
    /\ UNCHANGED <<suite, duration, concurrent, test_no, suite_clock,
                   suite_end_time, tasks, metrics, suite_raised>>
    /\ UNCHANGED <<sim_vars, runner_vars, response_vars, config_vars,
                   percentile_vars>>

\* run_performance_tests after the four tests (_calculate_summary,
\* _save_results, return) and main's generate_report
Summarise ==
    /\ spc = "next_test"
    /\ suite = "performance"
    /\ test_no = Len(Plan(suite))
    /\ LET summary == CalculateSummary(suite_results.tests) IN
       IF summary.present
       THEN /\ suite_results' = [suite_results EXCEPT !.summary = summary]
            /\ spc' = "done"
            /\ UNCHANGED suite_raised
       ELSE /\ suite_raised' = summary.raised
            /\ spc' = "crashed"
            /\ UNCHANGED suite_results
    /\ UNCHANGED <<suite, duration, concurrent, test_no, suite_clock,
                   suite_end_time, tasks, monitoring_task, metrics>>
    /\ UNCHANGED <<sim_vars, runner_vars, response_vars, config_vars,
                   percentile_vars>>

SuiteNext ==
    \/ StartTest
    \/ \E i \in 1..Len(tasks) : TaskCheck(i)
    \/ \E i \in 1..Len(tasks) : TaskRecord(i)
    \/ \E i \in 1..Len(tasks) : TaskWake(i)
    \/ Monitor
    \/ Tick
    \/ FinishTest
    \/ Summarise

SuiteSpec == SuiteInit /\ [][SuiteNext]_vars

(* ------------------------ properties of the suites -------------------- *)

\* C12: run_performance_tests runs the MEV, flash-loan, oracle and concurrent
\* tests in that order and returns four test entries and a summary over all
\* four: the run of the performance suite does not end in an exception.
C12_PerformanceSuiteReturns ==
    (suite = "performance" /\ spc \in {"done", "crashed"}) =>
        /\ spc = "done"
        /\ Len(suite_results.tests) = Len(PerformancePlan)
        /\ \A k \in 1..Len(suite_results.tests) :
              suite_results.tests[k]["test_type"] = PerformancePlan[k]
        /\ suite_results.summary.present

\* the samples of list that test k recorded
SamplesOf(list, k) == SelectSeq(list, LAMBDA x : x.test = k)

\* C18: the avg_response_time and the cpu_usage / system_load a test reports
\* are the means of the samples recorded during that test only.
C18_MeansAreOfOwnSamples ==
    \A k \in 1..Len(suite_results.tests) :
        LET entry == suite_results.tests[k]
            load == IF suite = "throughput" THEN "system_load" ELSE "cpu_usage"
        IN /\ SameRate(entry["avg_response_time"],
                       MeanOrZero(SamplesOf(metrics.response_times, k)))
           /\ SameRate(entry[load], MeanOrZero(SamplesOf(metrics.cpu_usage, k)))

\* tests whose attacks run as tasks gathered by the test
ConcurrentKinds == {"concurrent_simulation"} \cup
                   {ThroughputPlan[k] : k \in 1..Len(ThroughputPlan)}

SamplesOfTask(k, i) ==
    Len(SelectSeq(metrics.response_times,
                  LAMBDA x : x.test = k /\ x.task = i))

\* C19: in a concurrent test, at every point of every interleaving, each
\* task's attack count is the number of samples it has appended to the shared
\* list; the total_attacks the test reports is the sum of these counts and
\* the number of samples of the test; and no task starts an attack once the
\* clock has reached end_time.
C19_NoLostUpdate ==
    /\ (spc = "running" /\ Plan(suite)[test_no] \in ConcurrentKinds) =>
          \A i \in 1..Len(tasks) :
              /\ tasks[i].attack_count = SamplesOfTask(test_no, i)
              /\ tasks[i].pc = "attack" => tasks[i].started < suite_end_time
    /\ \A k \in 1..Len(suite_results.tests) :
          suite_results.tests[k]["test_type"] \in ConcurrentKinds =>
              /\ suite_results.tests[k]["total_attacks"]
                    = Len(SamplesOf(metrics.response_times, k))
              /\ (k = test_no /\ spc = "next_test") =>
                    suite_results.tests[k]["total_attacks"]
                       = SumCounts(tasks, Len(tasks))

\* a concurrent test of two tasks has returned, each task having attacked
C19_Witness ==
    /\ spc = "next_test"
    /\ test_no >= 1
    /\ Plan(suite)[test_no] \in ConcurrentKinds
    /\ Len(suite_results.tests) = test_no
    /\ Len(tasks) = 2
    /\ \A i \in 1..Len(tasks) : tasks[i].attack_count >= 1

(* -------------------- scripts/response_time_test.py ------------------- *)
(* One behaviour of ResponseSpec is one run of main: the five sequential  *)
(* tests, the concurrent test, the summary and generate_report.  A        *)
(* response time is the measured elapsed time, in milliseconds.           *)

\* Largest --test-count.
MaxTestCount == 2

\* what time.time() - start_time can measure
ResponseValues == {1, 2}

RECURSIVE Insert(_, _)
Insert(sorted, x) ==
    IF sorted = << >> THEN <<x>>
    ELSE IF x <= Head(sorted) THEN <<x>> \o sorted
    ELSE <<Head(sorted)>> \o Insert(Tail(sorted), x)

\* sorted(data)
RECURSIVE Sorted(_)
Sorted(data) ==
    IF data = << >> THEN << >> ELSE Insert(Sorted(Tail(data)), Head(data))

\* Faulty variant of CalculatePercentile: the list is indexed as it was
\* given, without sorted().
PercentileOfUnsorted(data, percentile) ==
    LET index == (percentile * Len(data)) \div 100
    IN data[Min(index, Len(data) - 1) + 1]

\* _calculate_percentile: sorted_data[min(int(percentile / 100 * n), n - 1)].
\* For percentile in 0..100 and n up to 40 the float product
\* (percentile / 100) * n truncates to the same integer as the exact
\* quotient percentile * n \div 100, which is what is computed here.
CalculatePercentile(data, percentile) ==
    LET sorted_data == Sorted(data)
        index == (percentile * Len(sorted_data)) \div 100
    IN sorted_data[Min(index, Len(sorted_data) - 1) + 1]

RECURSIVE SumSeq(_)
SumSeq(data) == IF data = << >> THEN 0 ELSE Head(data) + SumSeq(Tail(data))

\* _calculate_response_time_metrics
CalculateResponseTimeMetrics(times, test_type) ==
    IF times = << >>
    THEN ("error" :> "No response times recorded")
    ELSE ("test_type" :> test_type) @@ ("test_count" :> Len(times)) @@
         ("avg_response_time" :> <<SumSeq(times), Len(times)>>) @@
         ("min_response_time" :> Sorted(times)[1]) @@
         ("max_response_time" :> Sorted(times)[Len(times)]) @@
         ("median_response_time" :> "median") @@
         ("p90_response_time" :> CalculatePercentile(times, 90)) @@
         ("p95_response_time" :> CalculatePercentile(times, 95)) @@
         ("p99_response_time" :> CalculatePercentile(times, 99)) @@
         ("std_deviation" :> "stdev")

\* all_response_times of test_concurrent_response_time
RECURSIVE Extend(_, _)
Extend(lists, n) == IF n = 0 THEN << >> ELSE Extend(lists, n - 1) \o lists[n]

\* test_concurrent_response_time after the gather: the dictionary, or the
\* StatisticsError of statistics.mean of no data
ConcurrentResponseTime(lists, count) ==
    LET all_response_times == Extend(lists, Len(lists)) IN
    IF all_response_times = << >>
    THEN [raised |-> "StatisticsError"]
    ELSE [raised |-> "none",
          entry |->
            ("test_type" :> "concurrent_response_time") @@
            ("concurrent_tests" :> Len(lists)) @@
            ("test_count_per_concurrent" :> count) @@
            ("total_tests" :> Len(all_response_times)) @@
            ("avg_response_time" :> <<SumSeq(all_response_times),
                                      Len(all_response_times)>>) @@
            ("min_response_time" :> Sorted(all_response_times)[1]) @@
            ("max_response_time" :>
                Sorted(all_response_times)[Len(all_response_times)]) @@
            ("p95_response_time" :>
                CalculatePercentile(all_response_times, 95)) @@
            ("p99_response_time" :>
                CalculatePercentile(all_response_times, 99))]

\* _calculate_overall_summary
CalculateOverallSummary(es) ==
    IF \A k \in 1..Len(es) : "avg_response_time" \notin DOMAIN es[k]
    THEN [present |-> TRUE, error |-> TRUE]
    ELSE [present |-> TRUE, error |-> FALSE]

\* generate_report: the string, or the KeyError of a subscript
ResponseReport(res) ==
    IF res.summary.error THEN "KeyError"
    ELSE IF \E k \in 1..Len(res.tests) :
              /\ "error" \in DOMAIN res.tests[k]
              /\ "test_type" \notin DOMAIN res.tests[k]
         THEN "KeyError"
         ELSE "report"

\* after ResponseTimeTest(), with the parsed arguments
ResponseInit ==
    /\ SimIdle
    /\ RunnerIdle
    /\ SuiteIdle
    /\ ConfigIdle
    /\ PercentileIdle
    /\ rt_pc = "test"
    /\ test_count \in 0..MaxTestCount
    /\ concurrent_tests \in 0..MaxConcurrent
    /\ rt_test_no = 1
    /\ response_times = EmptyResponseTimes
    /\ rt_tasks = << >>
    /\ rt_results = [tests |-> << >>, summary |-> NoSummary]
    /\ rt_raised = "none"
    /\ rt_report = "none"

\* one iteration of "for i in range(test_count)" of a sequential test
MeasureResponse ==
    /\ rt_pc = "test"
    /\ LET type == DetectionTypes[rt_test_no] IN
       /\ Len(response_times[type]) < test_count
       /\ \E response_time \in ResponseValues :
             response_times' = [response_times EXCEPT ![type] =
                                   Append(@, response_time)]
    /\ UNCHANGED <<rt_pc, test_count, concurrent_tests, rt_test_no, rt_tasks,
                   rt_results, rt_raised, rt_report>>
    /\ UNCHANGED <<sim_vars, runner_vars, suite_vars, config_vars,
                   percentile_vars>>

\* the return of a sequential test and results["tests"].append; after the
\* fifth, test_concurrent_response_time creates its tasks
ReturnMetrics ==
    /\ rt_pc = "test"
    /\ LET type == DetectionTypes[rt_test_no] IN
       /\ Len(response_times[type]) = test_count
       /\ rt_results' = [rt_results EXCEPT !.tests =
             Append(@, CalculateResponseTimeMetrics(response_times[type],
                                                    type))]
    /\ IF rt_test_no < Len(DetectionTypes)
       THEN /\ rt_test_no' = rt_test_no + 1
            /\ UNCHANGED <<rt_pc, rt_tasks>>
       ELSE /\ rt_pc' = "concurrent"
            /\ rt_tasks' = [j \in 1..concurrent_tests |-> << >>]
            /\ UNCHANGED rt_test_no
    /\ UNCHANGED <<test_count, concurrent_tests, response_times, rt_raised,
                   rt_report>>
    /\ UNCHANGED <<sim_vars, runner_vars, suite_vars, config_vars,
                   percentile_vars>>

\* one iteration of _run_concurrent_detection_tests in task j
TaskMeasure(j) ==
    /\ rt_pc = "concurrent"
    /\ Len(rt_tasks[j]) < test_count
    /\ \E response_time \in ResponseValues :
          rt_tasks' = [rt_tasks EXCEPT ![j] = Append(@, response_time)]
    /\ UNCHANGED <<rt_pc, test_count, concurrent_tests, rt_test_no,
                   response_times, rt_results, rt_raised, rt_report>>
    /\ UNCHANGED <<sim_vars, runner_vars, suite_vars, config_vars,
                   percentile_vars>>

\* test_concurrent_response_time after the gather, and the append
Gather ==
    /\ rt_pc = "concurrent"
    /\ \A j \in 1..Len(rt_tasks) : Len(rt_tasks[j]) = test_count
    /\ LET out == ConcurrentResponseTime(rt_tasks, test_count) IN
       IF out.raised = "none"
       THEN /\ rt_results' = [rt_results EXCEPT !.tests = Append(@, out.entry)]
            /\ rt_pc' = "summary"
            /\ UNCHANGED rt_raised
       ELSE /\ rt_raised' = out.raised
            /\ rt_pc' = "crashed"
            /\ UNCHANGED rt_results
    /\ UNCHANGED <<test_count, concurrent_tests, rt_test_no, response_times,
                   rt_tasks, rt_report>>
    /\ UNCHANGED <<sim_vars, runner_vars, suite_vars, config_vars,
                   percentile_vars>>

\* run_all_response_time_tests after the six tests (_calculate_overall_summary,
\* _save_results, return) and main's generate_report
ResponseSummarise ==
    /\ rt_pc = "summary"
    /\ rt_results' = [rt_results EXCEPT
                         !.summary = CalculateOverallSummary(rt_results.tests)]
    /\ rt_report' = ResponseReport(rt_results')
    /\ rt_pc' = IF rt_report' = "report" THEN "done" ELSE "crashed"
    /\ rt_raised' = IF rt_report' = "report" THEN "none" ELSE rt_report'
    /\ UNCHANGED <<test_count, concurrent_tests, rt_test_no, response_times,
                   rt_tasks>>
    /\ UNCHANGED <<sim_vars, runner_vars, suite_vars, config_vars,
                   percentile_vars>>

ResponseNext ==
    \/ MeasureResponse
    \/ ReturnMetrics
    \/ \E j \in 1..Len(rt_tasks) : TaskMeasure(j)
    \/ Gather
    \/ ResponseSummarise

ResponseSpec == ResponseInit /\ [][ResponseNext]_vars

\* C20: when the response-time tests recorded no samples (test_count = 0),
\* run_all_response_time_tests completes with an error entry for each such
\* test, and generate_report renders the entries and returns the report: the
\* run ends without an exception.
C20_NoSamplesIsReported ==
    (test_count = 0 /\ rt_pc \in {"done", "crashed"}) =>
        /\ rt_pc = "done"
        /\ rt_raised = "none"
        /\ rt_report = "report"
        /\ \E k \in 1..Len(rt_results.tests) :
              "error" \in DOMAIN rt_results.tests[k]

(* ------------- the constructor and the length of the loop ------------- *)
(* One behaviour of ConfigSpec is the construction of one simulator from  *)
(* the file at config_path, followed, for the eleven *_simulator.py       *)
(* scripts, by the first statements of _run_attack_simulation.  A         *)
(* simulation_config is known by three of its keys: the first bounded     *)
(* count ("count": bot_count, contract_count, ...), the first list of     *)
(* targets ("targets") and simulation_duration.                           *)

FieldNames == {"count", "targets", "simulation_duration"}

\* durations a file can give; "null" is JSON null
Durations == {"1h", "6h", "8h", "12h", "24h", "36h", "48h"}

FieldValues(name) ==
    CASE name = "count" -> {"1", "0"}
      [] name = "targets" -> {"list", "number"}
      [] name = "simulation_duration" -> Durations \cup {"null"}

AllFieldValues == UNION {FieldValues(name) : name \in FieldNames}

\* the simulation_config objects of a file
SimulationConfigs ==
    UNION {{f \in [D -> AllFieldValues] : \A k \in D : f[k] \in FieldValues(k)} :
              D \in SUBSET FieldNames}

\* what open(config_path) and json.load find
ConfigFiles ==
    {[kind |-> k] : k \in {"missing", "unreadable", "invalid_json",
                           "not_object"}} \cup
    {[kind |-> "object", other_keys |-> o,
      simulation_config |-> [kind |-> k]] :
        o \in BOOLEAN, k \in {"absent", "not_mapping"}} \cup
    {[kind |-> "object", other_keys |-> o,
      simulation_config |-> [kind |-> "mapping", fields |-> f]] :
        o \in BOOLEAN, f \in SimulationConfigs}

\* simulation_duration: str = Field(default=...)
DefaultDuration(s) ==
    CASE s \in {"mev", "cross_chain", "governance", "social_engineering"} -> "24h"
      [] s \in {"flash_loan", "economic", "staking"} -> "12h"
      [] s \in {"oracle", "ddos"} -> "6h"
      [] s = "reentrancy" -> "8h"
      [] s = "supply_chain" -> "48h"

\* the Config class has a count with bounds (Field(..., ge=1, le=...))
HasCount(s) == s \notin {"flash_loan", "oracle"}

\* FooConfig(): every field at its default
DefaultConfig(s) ==
    [kind |-> "model", count |-> "default", targets |-> "default",
     simulation_duration |-> DefaultDuration(s)]

\* the value pydantic rejects for the field (a key that is no field of the
\* class is ignored)
Rejected(s, name, value) ==
    CASE name = "count" -> HasCount(s) /\ value = "0"
      [] name = "targets" -> value = "number"
      [] name = "simulation_duration" -> value = "null"

\* the fields of FooConfig(**fields), each given or at its default
Applied(s, fields) ==
    [kind |-> "model",
     count |-> IF "count" \in DOMAIN fields /\ HasCount(s)
                  /\ ~Rejected(s, "count", fields["count"])
               THEN fields["count"] ELSE "default",
     targets |-> IF "targets" \in DOMAIN fields
                    /\ ~Rejected(s, "targets", fields["targets"])
                 THEN fields["targets"] ELSE "default",
     simulation_duration |->
         IF "simulation_duration" \in DOMAIN fields
            /\ ~Rejected(s, "simulation_duration", fields["simulation_duration"])
         THEN fields["simulation_duration"] ELSE DefaultDuration(s)]

\* Faulty variant of Validate: a rejected value is skipped and the others
\* are applied.
ValidateLeniently(s, fields) == [raised |-> FALSE, config |-> Applied(s, fields)]

\* FooConfig(**fields): the model, or ValidationError when a value is rejected
Validate(s, fields) ==
    IF \E name \in DOMAIN fields : Rejected(s, name, fields[name])
    THEN [raised |-> TRUE, config |-> NoConfig]
    ELSE [raised |-> FALSE, config |-> Applied(s, fields)]

\* {} of simulate_sandwich_attack.py
EmptyDict == [kind |-> "json", value |-> [kind |-> "object", other_keys |-> FALSE,
                                          simulation_config |-> [kind |-> "absent"]]]

\* _load_config: self.config and the number of errors logged
LoadConfig(s, file) ==
    IF s = Sandwich
    THEN IF file.kind \in {"missing", "unreadable", "invalid_json"}
         THEN [config |-> EmptyDict, errors |-> 1]
         ELSE [config |-> [kind |-> "json", value |-> file], errors |-> 0]
    ELSE IF file.kind # "object"
         THEN [config |-> DefaultConfig(s), errors |-> 1]
         ELSE LET sc == file.simulation_config IN
              IF sc.kind = "absent"
              THEN [config |-> Applied(s, << >>), errors |-> 0]
              ELSE IF sc.kind = "not_mapping"
              THEN [config |-> DefaultConfig(s), errors |-> 1]
              ELSE LET v == Validate(s, sc.fields) IN
                   IF v.raised
                   THEN [config |-> DefaultConfig(s), errors |-> 1]
                   ELSE [config |-> v.config, errors |-> 0]

\* the literal _run_attack_simulation compares with, and the hours it gives
LoopDuration(s) ==
    CASE s \in {"mev", "cross_chain", "governance", "social_engineering"}
            -> <<"24h", 24>>
      [] s \in {"flash_loan", "economic", "staking"} -> <<"12h", 12>>
      [] s \in {"oracle", "ddos"} -> <<"6h", 6>>
      [] s = "reentrancy" -> <<"8h", 8>>
      [] s = "supply_chain" -> <<"48h", 48>>

\* the hours a duration string names
Hours(d) ==
    CASE d = "1h" -> 1 [] d = "6h" -> 6 [] d = "8h" -> 8 [] d = "12h" -> 12
      [] d = "24h" -> 24 [] d = "36h" -> 36 [] d = "48h" -> 48

\* Faulty variant of DurationHours: the duration string is parsed.
ParsedDurationHours(s, d) == Hours(d)

\* duration_hours = N if self.config.simulation_duration == "Nh" else 1
DurationHours(s, d) ==
    IF d = LoopDuration(s)[1] THEN LoopDuration(s)[2] ELSE 1

ConfigInit ==
    /\ SimIdle
    /\ RunnerIdle
    /\ SuiteIdle
    /\ ResponseIdle
    /\ PercentileIdle
    /\ csim \in Simulators \cup {Sandwich}
    /\ cpc = "constructing"
    /\ config_file \in ConfigFiles
    /\ self_config = NoConfig
    /\ load_errors = 0
    /\ ctor_raised = "none"
    /\ duration_hours = 0

\* __init__: self.config = self._load_config(config_path)
Construct ==
    /\ cpc = "constructing"
    /\ LET loaded == LoadConfig(csim, config_file) IN
       /\ self_config' = loaded.config
       /\ load_errors' = load_errors + loaded.errors
    /\ cpc' = "constructed"
    /\ UNCHANGED <<csim, config_file, ctor_raised, duration_hours>>
    /\ UNCHANGED <<sim_vars, runner_vars, suite_vars, response_vars,
                   percentile_vars>>

\* _run_attack_simulation up to "while time.time() < end_time"
StartAttackLoop ==
    /\ cpc = "constructed"
    /\ csim \in Simulators
    /\ duration_hours' = DurationHours(csim, self_config.simulation_duration)
    /\ cpc' = "looping"
    /\ UNCHANGED <<csim, config_file, self_config, load_errors, ctor_raised>>
    /\ UNCHANGED <<sim_vars, runner_vars, suite_vars, response_vars,
                   percentile_vars>>

ConfigNext ==
    \/ Construct
    \/ StartAttackLoop

ConfigSpec == ConfigInit /\ [][ConfigNext]_vars

\* the file is missing, unreadable or not valid JSON
Unparseable(file) == file.kind \in {"missing", "unreadable", "invalid_json"}

\* the file holds a simulation_config that the simulator's validation rejects
HoldsRejected(s, file) ==
    /\ s # Sandwich
    /\ file.kind = "object"
    /\ file.simulation_config.kind = "mapping"
    /\ \E name \in DOMAIN file.simulation_config.fields :
          Rejected(s, name, file.simulation_config.fields[name])

\* the file is a JSON object without a simulation_config key
LacksKey(file) ==
    file.kind = "object" /\ file.simulation_config.kind = "absent"

\* what the simulator runs with when nothing was loaded
Defaults(s) == IF s = Sandwich THEN EmptyDict ELSE DefaultConfig(s)

\* C21 as stated: for every simulator, the constructor does not raise, and a
\* file that is missing, unreadable, not valid JSON, holds a rejected
\* simulation_config, or has no simulation_config key leaves the complete
\* defaults in self.config.
C21_DefaultsForEverySimulator ==
    cpc # "constructing" =>
        /\ ctor_raised = "none"
        /\ (\/ Unparseable(config_file)
            \/ HoldsRejected(csim, config_file)
            \/ LacksKey(config_file)) => self_config = Defaults(csim)

\* C21, amended: the constructor does not raise; in the eleven *_simulator.py
\* scripts a file that is missing, unreadable, not valid JSON, holds a
\* rejected simulation_config, or has no simulation_config key leaves the
\* complete defaults in self.config; simulate_sandwich_attack.py falls back
\* to {} only when the file cannot be read or parsed, and otherwise keeps the
\* parsed document as it is, simulation_config key or not.
C21_DefaultsWhereValidated ==
    cpc # "constructing" =>
        /\ ctor_raised = "none"
        /\ (/\ csim # Sandwich
            /\ \/ Unparseable(config_file)
               \/ HoldsRejected(csim, config_file)
               \/ LacksKey(config_file)) => self_config = DefaultConfig(csim)
        /\ (csim = Sandwich /\ Unparseable(config_file))
              => self_config = EmptyDict
        /\ (csim = Sandwich /\ ~Unparseable(config_file))
              => self_config = [kind |-> "json", value |-> config_file]

\* a simulation_config with one rejected value and one accepted value that is
\* not the default has been loaded, and the accepted value was not applied
C21_Witness ==
    /\ cpc = "constructed"
    /\ csim = "mev"
    /\ config_file.kind = "object"
    /\ config_file.simulation_config.kind = "mapping"
    /\ DOMAIN config_file.simulation_config.fields
          = {"count", "simulation_duration"}
    /\ config_file.simulation_config.fields["count"] = "0"
    /\ config_file.simulation_config.fields["simulation_duration"] = "6h"
    /\ self_config = DefaultConfig("mev")
    /\ load_errors = 1

\* C22: the attack loop's length is decided by string equality only: a
\* simulation_duration equal to the simulator's default string ("24h", "12h",
\* "6h", "8h" or "48h") gives that many hours, and every other value gives
\* exactly 1 hour.
C22_DurationByEquality ==
    cpc = "looping" =>
        /\ DefaultDuration(csim) \in {"24h", "12h", "6h", "8h", "48h"}
        /\ duration_hours =
              IF self_config.simulation_duration = DefaultDuration(csim)
              THEN Hours(DefaultDuration(csim)) ELSE 1

\* a well-formed duration that is not the simulator's default gave one hour
C22_Witness ==
    /\ cpc = "looping"
    /\ csim = "supply_chain"
    /\ self_config.simulation_duration = "24h"
    /\ duration_hours = 1

(* ------------- scripts/response_time_test.py: percentiles ------------- *)
(* _calculate_percentile is a pure function of the list and the           *)
(* percentile.  One behaviour of PercentileSpec takes a non-empty list of *)
(* response times and two percentiles p <= q, calls the function for      *)
(* both, and then builds the metrics dictionary of the same list.         *)

\* Longest list of response times.
MaxTimes == 3

\* the response times a list can hold
PercentileValues == {1, 2, 3}

Percentiles == 0..100

RECURSIVE ListsOf(_)
ListsOf(n) ==
    IF n = 0 THEN {<< >>}
    ELSE {Append(l, x) : l \in ListsOf(n - 1), x \in PercentileValues}

NonEmptyLists == UNION {ListsOf(n) : n \in 1..MaxTimes}

Elements(data) == {data[k] : k \in 1..Len(data)}

\* max(data)
MaxOf(data) == CHOOSE x \in Elements(data) : \A y \in Elements(data) : y <= x

PercentileInit ==
    /\ SimIdle
    /\ RunnerIdle
    /\ SuiteIdle
    /\ ResponseIdle
    /\ ConfigIdle
    /\ pct_pc = "call"
    /\ pct_data \in NonEmptyLists
    /\ pct_p \in Percentiles
    /\ pct_q \in Percentiles
    /\ pct_p <= pct_q
    /\ pct_results = NoPercentiles
    /\ pct_metrics = NoPercentiles

\* self._calculate_percentile(data, p) and self._calculate_percentile(data, q)
CallPercentile ==
    /\ pct_pc = "call"
    /\ pct_results' = [p |-> CalculatePercentile(pct_data, pct_p),
                       q |-> CalculatePercentile(pct_data, pct_q)]
    /\ pct_pc' = "metrics"
    /\ UNCHANGED <<pct_data, pct_p, pct_q, pct_metrics>>
    /\ UNCHANGED <<sim_vars, runner_vars, suite_vars, response_vars,
                   config_vars>>

\* self._calculate_response_time_metrics(data, test_type)
CallMetrics ==
    /\ pct_pc = "metrics"
    /\ pct_metrics' =
          CalculateResponseTimeMetrics(pct_data, "anomaly_detection")
    /\ pct_pc' = "done"
    /\ UNCHANGED <<pct_data, pct_p, pct_q, pct_results>>
    /\ UNCHANGED <<sim_vars, runner_vars, suite_vars, response_vars,
                   config_vars>>

PercentileNext ==
    \/ CallPercentile
    \/ CallMetrics

PercentileSpec == PercentileInit /\ [][PercentileNext]_vars

\* C24: for a non-empty list and percentiles p <= q in 0..100,
\* _calculate_percentile returns an element of the list, its result for p
\* is at most its result for q, no result exceeds max(data), the result for
\* 100 is max(data), and in the metrics dictionary of the list
\* p90 <= p95 <= p99 <= max_response_time.
C24_PercentilesAreOrdered ==
    /\ pct_pc \in {"metrics", "done"} =>
          /\ pct_results.p \in Elements(pct_data)
          /\ pct_results.q \in Elements(pct_data)
          /\ pct_results.p <= pct_results.q
          /\ pct_results.q <= MaxOf(pct_data)
          /\ pct_q = 100 => pct_results.q = MaxOf(pct_data)
    /\ pct_pc = "done" =>
          /\ pct_metrics["p90_response_time"]
                <= pct_metrics["p95_response_time"]
          /\ pct_metrics["p95_response_time"]
                <= pct_metrics["p99_response_time"]
          /\ pct_metrics["p99_response_time"]
                <= pct_metrics["max_response_time"]

\* An unsorted list of three different times, where the lower percentile
\* gave a smaller time than the upper one and the upper one, 100, the
\* largest time, which is not the last element of the list.
C24_Witness ==
    /\ pct_pc = "done"
    /\ Cardinality(Elements(pct_data)) = 3
    /\ pct_data[Len(pct_data)] # MaxOf(pct_data)
    /\ pct_data[1] # 1
    /\ 0 < pct_p
    /\ pct_q = 100
    /\ pct_results.p < pct_results.q
    /\ pct_results.q = MaxOf(pct_data)

====
